---- MODULE Spec2Model ----
(***************************************************************************)
(* Agentic CLI: the workflow graph (router, planner, executor, researcher), *)
(* the approval pause of the CLI front-end and the command sandbox.         *)
(*                                                                          *)
(* Texts (commands, classifier outputs) are sequences of one-character      *)
(* strings, so that lower(), upper(), strip() and the substring test `in`   *)
(* are computed and not assumed.                                            *)
(***************************************************************************)
EXTENDS Integers, Sequences, FiniteSets, TLC

\* ------------------------------------------------------------------ bounds

\* Longest plan the completion service returns.
MaxPlan == 2

\* Human messages typed into one thread.
MaxTurns == 2

\* Times the process is killed and started again.
MaxCrashes == 1

\* ------------------------------------------------------------------- texts

UpperAlpha ==
  <<"A","B","C","D","E","F","G","H","I","J","K","L","M",
    "N","O","P","Q","R","S","T","U","V","W","X","Y","Z">>

LowerAlpha ==
  <<"a","b","c","d","e","f","g","h","i","j","k","l","m",
    "n","o","p","q","r","s","t","u","v","w","x","y","z">>

Whitespace == {" ", "\t", "\n"}

LowerChar(c) ==
  IF \E i \in 1..Len(UpperAlpha) : UpperAlpha[i] = c
    THEN LowerAlpha[CHOOSE i \in 1..Len(UpperAlpha) : UpperAlpha[i] = c]
    ELSE c

UpperChar(c) ==
  IF \E i \in 1..Len(LowerAlpha) : LowerAlpha[i] = c
    THEN UpperAlpha[CHOOSE i \in 1..Len(LowerAlpha) : LowerAlpha[i] = c]
    ELSE c

\* str.lower()
lower(s) == [i \in 1..Len(s) |-> LowerChar(s[i])]

\* str.upper()
upper(s) == [i \in 1..Len(s) |-> UpperChar(s[i])]

\* str.strip(): leading and trailing whitespace removed
strip(s) ==
  IF \A i \in 1..Len(s) : s[i] \in Whitespace
    THEN <<>>
    ELSE LET a == CHOOSE i \in 1..Len(s) :
                    /\ s[i] \notin Whitespace
                    /\ \A j \in 1..(i - 1) : s[j] \in Whitespace
             b == CHOOSE i \in 1..Len(s) :
                    /\ s[i] \notin Whitespace
                    /\ \A j \in (i + 1)..Len(s) : s[j] \in Whitespace
         IN  SubSeq(s, a, b)

\* Python's `p in s` on two strings
Contains(s, p) ==
  \E i \in 0..(Len(s) - Len(p)) : SubSeq(s, i + 1, i + Len(p)) = p

\* Python's None, where a text is expected
None == <<"None">>

\* `not command`: None and the empty string are falsy
Falsy(command) == command = None \/ command = <<>>

RmRfRoot == <<"r","m"," ","-","r","f"," ","/">>
FormatC  == <<"f","o","r","m","a","t"," ","c",":">>
RdSQC    == <<"r","d"," ","/","s"," ","/","q"," ","c",":","\\">>

\* SafeSubprocess.run: forbidden_patterns
forbidden_patterns == <<RmRfRoot, FormatC, RdSQC>>

\* ------------------------------------------------------- command sandbox

\* What the operating system does with a command that is spawned.
ProcessOutcomes ==
  {"launch_error", "exit_zero", "exit_nonzero", "timeout", "collect_error"}

\* The denylist loop of SafeSubprocess.run, without the case folding.
DenylistHit_CaseSensitive(command) ==
  \E i \in 1..Len(forbidden_patterns) : Contains(command, forbidden_patterns[i])

\* The denylist loop of SafeSubprocess.run: `pattern in command.lower()`.
DenylistHit(command) ==
  \E i \in 1..Len(forbidden_patterns) :
    Contains(lower(command), forbidden_patterns[i])

\* What happens in a call of SafeSubprocess.run: the denylist stops it, or
\* the operating system decides.
Happened(command, outcome) ==
  IF DenylistHit(command) THEN "denylist_hit" ELSE outcome

\* SafeSubprocess.run whose timeout branch reports a normal exit.
SafeSubprocess_run_TimeoutAsExit(command, outcome) ==
  IF DenylistHit(command)
    THEN [return_code |-> -1, stdout |-> "",
          stderr |-> "CRITICAL SECURITY: Command blocked by SafeSubprocess",
          launched |-> FALSE]
    ELSE CASE outcome \in {"launch_error", "collect_error"} ->
                [return_code |-> -1, stdout |-> "",
                 stderr |-> "Execution failed",
                 launched |-> outcome = "collect_error"]
           [] outcome \in {"exit_zero", "timeout"} ->
                [return_code |-> 0, stdout |-> "out", stderr |-> "",
                 launched |-> TRUE]
           [] outcome = "exit_nonzero" ->
                [return_code |-> 1, stdout |-> "out", stderr |-> "err",
                 launched |-> TRUE]

\* SafeSubprocess.run without its outer except clause: a failure of Popen,
\* or of communicate after the kill, leaves the call as an exception.
SafeSubprocess_run_NoOuterExcept(command, outcome) ==
  IF DenylistHit(command)
    THEN [return_code |-> -1, stdout |-> "",
          stderr |-> "CRITICAL SECURITY: Command blocked by SafeSubprocess",
          launched |-> FALSE]
    ELSE CASE outcome \in {"launch_error", "collect_error"} ->
                [return_code |-> -1, stdout |-> "", stderr |-> "",
                 launched |-> outcome = "collect_error",
                 raise |-> "OSError"]
           [] outcome = "exit_zero" ->
                [return_code |-> 0, stdout |-> "out", stderr |-> "",
                 launched |-> TRUE]
           [] outcome = "exit_nonzero" ->
                [return_code |-> 1, stdout |-> "out", stderr |-> "err",
                 launched |-> TRUE]
           [] outcome = "timeout" ->
                [return_code |-> 124, stdout |-> "partial",
                 stderr |-> "Command timed out after 60s.",
                 launched |-> TRUE]

\* SafeSubprocess.run(command): the triple it returns, and whether Popen
\* started a child process (launched).
SafeSubprocess_run(command, outcome) ==
  IF DenylistHit(command)
    THEN [return_code |-> -1, stdout |-> "",
          stderr |-> "CRITICAL SECURITY: Command blocked by SafeSubprocess",
          launched |-> FALSE]
    ELSE CASE outcome = "launch_error" ->
                [return_code |-> -1, stdout |-> "",
                 stderr |-> "Execution failed", launched |-> FALSE]
           [] outcome = "exit_zero" ->
                [return_code |-> 0, stdout |-> "out", stderr |-> "",
                 launched |-> TRUE]
           [] outcome = "exit_nonzero" ->
                [return_code |-> 1, stdout |-> "out", stderr |-> "err",
                 launched |-> TRUE]
           [] outcome = "timeout" ->
                [return_code |-> 124, stdout |-> "partial",
                 stderr |-> "Command timed out after 60s.",
                 launched |-> TRUE]
           [] outcome = "collect_error" ->
                [return_code |-> -1, stdout |-> "",
                 stderr |-> "Execution failed", launched |-> TRUE]

\* ------------------------------------------------------------ GlobalState

\* A HumanMessage, AIMessage or SystemMessage that no merge has seen yet
\* (id None, modelled as 0).
NewMessage(type, content) == [id |-> 0, type |-> type, content |-> content]

\* langgraph's add_messages as GlobalState declares it for `messages`: a
\* message of `right` whose id is in `left` replaces that message in place,
\* any other is appended (and given an id when it has none).
RECURSIVE add_messages(_, _)
add_messages(left, right) ==
  IF right = <<>>
    THEN left
    ELSE LET m == Head(right)
             hit == {i \in 1..Len(left) : m.id # 0 /\ left[i].id = m.id}
             merged ==
               IF hit # {}
                 THEN [left EXCEPT ![CHOOSE i \in hit : TRUE] = m]
                 ELSE Append(left, [m EXCEPT !.id =
                                      IF m.id = 0 THEN Len(left) + 1 ELSE m.id])
         IN  add_messages(merged, Tail(right))

\* Keys that nodes return but GlobalState does not declare.
Undeclared == {"route_target", "grader_decision"}

Absent == "absent"

\* The state of a new thread: no channel has a value yet (an absent plan
\* reads as the empty list, an absent cursor as 0, an absent flag as False,
\* an absent _route_target as Absent, an absent _grader_decision as None).
EmptyState ==
  [messages |-> <<>>,
   plan |-> <<>>,
   current_step_index |-> 0,
   research_outputs |-> <<>>,
   execution_history |-> <<>>,
   user_validated |-> FALSE,
   route_target |-> Absent,
   grader_decision |-> None]

\* ------------------------------------------------------------------ router

Execute  == <<"E","X","E","C","U","T","E">>
Research == <<"R","E","S","E","A","R","C","H">>
Chat     == <<"C","H","A","T">>

\* router, lines 31-39: the local `category` and the target chosen from it.
RouterCategory(response) == upper(strip(response))

RouterTarget(category) ==
  IF Contains(category, Execute) THEN "planner"
  ELSE IF Contains(category, Research) THEN "researcher"
  ELSE "chat"

\* route_request: state.get("_route_target", "chat_node")
route_request(s) ==
  IF s.route_target = Absent THEN "chat_node" ELSE s.route_target

\* The path map of add_conditional_edges("router", route_request, {...}).
RouterBranches == {"planner", "researcher", "chat_node"}

\* ----------------------------------------------------------------- planner

Statuses == {"pending", "in_progress", "done", "failed"}

\* A completion that json.loads (or the loop over its items) rejects.
InvalidJSON == [valid |-> FALSE, plan_data |-> << >>]

\* draft_plan, lines 50-56: the parsed array, a missing status defaulted.
DefaultStatus(plan_data) ==
  [i \in 1..Len(plan_data) |->
     IF "status" \in DOMAIN plan_data[i]
       THEN plan_data[i]
       ELSE ("status" :> "pending") @@ plan_data[i]]

\* draft_plan that keeps the cursor when it replaces the plan.
draft_plan_KeepsCursor(response) ==
  IF response = InvalidJSON
    THEN [plan |-> <<>>,
          messages |-> <<NewMessage("system", <<"Error generating plan">>)>>]
    ELSE [plan |-> DefaultStatus(response.plan_data),
          user_validated |-> FALSE]

\* draft_plan: the update it returns for a completion `response`.
draft_plan(response) ==
  IF response = InvalidJSON
    THEN [plan |-> <<>>,
          messages |-> <<NewMessage("system", <<"Error generating plan">>)>>]
    ELSE [plan |-> DefaultStatus(response.plan_data),
          current_step_index |-> 0,
          user_validated |-> FALSE]

\* plan_refiner: the update it returns for a completion `response`.
plan_refiner(response) ==
  IF response = InvalidJSON
    THEN [messages |-> <<NewMessage("system", <<"Error refining plan">>)>>]
    ELSE [plan |-> DefaultStatus(response.plan_data),
          user_validated |-> FALSE]

\* ---------------------------------------------------------------- executor

\* An update that stands for an exception raised by the node or edge.
Raise(error) == [raise |-> error]

Raises(update) == "raise" \in DOMAIN update

\* step["key"] = value on a plan step (the key is added when missing).
SetKey(step, key, value) == (key :> value) @@ step

\* step_parser that marks every remaining step, not only the one at the
\* cursor.
step_parser_MarksRemaining(s) ==
  LET plan == s.plan
      idx == s.current_step_index
  IN  IF idx >= Len(plan)
        THEN [current_step_index |-> idx]
        ELSE [plan |-> [i \in 1..Len(plan) |->
                          IF i > idx
                            THEN SetKey(plan[i], "status", "in_progress")
                            ELSE plan[i]]]

\* plan[idx] in Python is plan[idx + 1] here.
step_parser(s) ==
  LET plan == s.plan
      idx == s.current_step_index
  IN  IF idx >= Len(plan)
        THEN [current_step_index |-> idx]
        ELSE [plan |-> [plan EXCEPT ![idx + 1] =
                          SetKey(plan[idx + 1], "status", "in_progress")]]

safety_guard(s) ==
  LET idx == s.current_step_index
  IN  IF idx >= Len(s.plan)
        THEN Raise("IndexError")
        ELSE LET command == s.plan[idx + 1].command
             IN  IF command = None
                   THEN Raise("TypeError")
                   ELSE IF Contains(command, RmRfRoot)
                          THEN [plan |-> s.plan]
                          ELSE << >>

\* terminal_runner that takes the blocked exit code -1 for a success.
terminal_runner_BlockedAsDone(s, r) ==
  LET idx == s.current_step_index
      plan == s.plan
  IN  IF idx >= Len(plan)
        THEN Raise("IndexError")
        ELSE
          LET step == plan[idx + 1]
              command == step.command
              output == <<r.stdout, r.stderr>>
              history_item ==
                [step_id |-> step.id, command |-> command,
                 return_code |-> r.return_code, output |-> output]
              finished(status, out) ==
                [plan EXCEPT ![idx + 1] =
                   SetKey(SetKey(step, "status", status), "output", out)]
          IN  IF Falsy(command)
                THEN [plan |-> finished("done", <<"(No command executed)">>),
                      current_step_index |-> idx + 1,
                      execution_history |->
                        Append(s.execution_history,
                               [command |-> None,
                                output |-> <<"Skipped (no command)">>])]
                ELSE IF r.return_code <= 0
                  THEN [plan |-> finished("done", output),
                        current_step_index |-> idx + 1,
                        execution_history |->
                          Append(s.execution_history, history_item)]
                  ELSE [plan |-> finished("failed", output),
                        execution_history |->
                          Append(s.execution_history, history_item)]

\* terminal_runner: the update it returns; `r` is what safe_runner.run
\* returned (not used when the step has no command).
terminal_runner(s, r) ==
  LET idx == s.current_step_index
      plan == s.plan
  IN  IF idx >= Len(plan)
        THEN Raise("IndexError")
        ELSE
          LET step == plan[idx + 1]
              command == step.command
              output == <<r.stdout, r.stderr>>
              history_item ==
                [step_id |-> step.id, command |-> command,
                 return_code |-> r.return_code, output |-> output]
              finished(status, out) ==
                [plan EXCEPT ![idx + 1] =
                   SetKey(SetKey(step, "status", status), "output", out)]
          IN  IF Falsy(command)
                THEN [plan |-> finished("done", <<"(No command executed)">>),
                      current_step_index |-> idx + 1,
                      execution_history |->
                        Append(s.execution_history,
                               [command |-> None,
                                output |-> <<"Skipped (no command)">>])]
                ELSE IF r.return_code = 0
                  THEN [plan |-> finished("done", output),
                        current_step_index |-> idx + 1,
                        execution_history |->
                          Append(s.execution_history, history_item)]
                  ELSE [plan |-> finished("failed", output),
                        execution_history |->
                          Append(s.execution_history, history_item)]

error_handler(s) ==
  [messages |->
     Append(s.messages,
            NewMessage("system",
                       <<"Execution failed at step", s.current_step_index + 1>>))]

\* check_execution_result that never reports the failure.
check_execution_result_NoFailure(s) ==
  IF s.current_step_index >= Len(s.plan) THEN "IndexError" ELSE "step_parser"

\* check_execution_result: the label it returns, or "IndexError" when
\* state["plan"][idx] raises.
check_execution_result(s) ==
  LET idx == s.current_step_index
  IN  IF idx >= Len(s.plan)
        THEN "IndexError"
        ELSE IF s.plan[idx + 1].status = "failed"
               THEN "error_handler"
               ELSE "step_parser"

\* -------------------------------------------------------------- researcher

Yes == <<"Y","E","S">>

\* grader: decision = response.content.strip().upper()
GraderDecision(response) == upper(strip(response))

\* check_grade that gives up three attempts later.
check_grade_GiveUpLate(s) ==
  LET decision == IF s.grader_decision = None
                    THEN <<"N","O">> ELSE s.grader_decision
      attempts == Len(s.research_outputs)
  IN  IF Contains(decision, Yes) THEN "drafter"
      ELSE IF attempts >= 5 THEN "drafter"
      ELSE "search_engine"

\* check_grade
check_grade(s) ==
  LET decision == IF s.grader_decision = None
                    THEN <<"N","O">> ELSE s.grader_decision
      attempts == Len(s.research_outputs)
  IN  IF Contains(decision, Yes) THEN "drafter"
      ELSE IF attempts >= 2 THEN "drafter"
      ELSE "search_engine"

\* ------------------------------------------------------------------ inputs

\* Commands the planner puts into a step: null, the empty text, a harmless
\* command, and the root deletion in another casing than the denylist's,
\* with whitespace around it.
Ls == <<"l","s">>
RmRfRootMixed == <<" ","R","M"," ","-","R","f"," ","/"," ">>

Commands == {None, << >>, Ls, RmRfRootMixed}

\* One object of the planner's JSON array, without its id: with no status
\* key, or with a status the completion service wrote itself.
StepChoices ==
  {[command |-> c] : c \in Commands}
    \cup {[command |-> Ls, status |-> "failed"]}

JsonStep(i, choice) ==
  [id |-> i, description |-> "step", risk_level |-> "LOW"] @@ choice

\* What the completion service answers to draft_plan.
PlannerResponses ==
  {InvalidJSON} \cup
  UNION {{[valid |-> TRUE,
            plan_data |-> [i \in 1..n |-> JsonStep(i, f[i])]] :
              f \in [1..n -> StepChoices]} : n \in 0..MaxPlan}

\* What the operating system does with the commands of a plan: they exit
\* with 0 or run past the timeout (any other failure takes the same branch
\* of terminal_runner as the timeout; a blocked command returns -1).
ExecutorOutcomes == {"exit_zero", "timeout"}

\* What the completion service answers to the router.
ClassifierOutputs == {Execute, Research, Chat}

\* What the completion service answers to the grader.
GraderOutputs == {Yes, <<"N","O">>, <<" ","y","e","s","\n">>}

\* What search_tool.search returns (it catches its own failures).
SearchResults == {"results"}

\* ------------------------------------------------------------------ engine

VARIABLES
  state,            \* the GlobalState the running graph reads and updates
  store,            \* the checkpointer: last snapshot and the pending node
  pc,               \* where the front-end or the graph stands
  turn,             \* human messages typed so far
  dry_run,          \* the --dry-run option of `start`
  keeps_undeclared, \* whether the engine keeps update keys GlobalState lacks
  trace,            \* history: nodes and engine events of the current turn
  router_response,  \* history: the completion the router last received
  lastRun,          \* history: the turn's last call of SafeSubprocess.run
  handed,           \* history: indices of the plan in state handed to run
  crashes           \* history: times the process was started again

vars ==
  <<state, store, pc, turn, dry_run, keeps_undeclared,
    trace, router_response, lastRun, handed, crashes>>

NoRun == [called |-> FALSE]

\* The record of a call of SafeSubprocess.run that returned (or raised) r.
RunRecord(command, outcome, r) ==
  [called |-> TRUE, command |-> command,
   happened |-> Happened(command, outcome),
   return_code |-> r.return_code, stderr |-> r.stderr,
   launched |-> r.launched, raised |-> Raises(r)]

\* A merge that overwrites messages like any other key.
Merge_Overwrite(s, update) ==
  [k \in DOMAIN s |->
     IF k \notin DOMAIN update THEN s[k]
     ELSE IF k \in Undeclared /\ ~keeps_undeclared THEN s[k]
     ELSE update[k]]

\* The engine's merge of a node's update: messages through add_messages,
\* every other declared key overwritten; a key GlobalState does not declare
\* is kept only by an engine that keeps such keys.
Merge(s, update) ==
  [k \in DOMAIN s |->
     IF k \notin DOMAIN update THEN s[k]
     ELSE IF k = "messages" THEN add_messages(s.messages, update.messages)
     ELSE IF k \in Undeclared /\ ~keeps_undeclared THEN s[k]
     ELSE update[k]]

\* A checkpointer that does not save the plan.
Snapshot_WithoutPlan(s, next) ==
  [values |-> [s EXCEPT !.plan = << >>], next |-> next]

\* What the checkpointer saves for the thread: the values of the channels
\* and the node to run next.
Snapshot(s, next) == [values |-> s, next |-> next]

Init ==
  /\ state = EmptyState
  /\ store = Snapshot(EmptyState, "none")
  /\ pc = "prompt"
  /\ turn = 0
  /\ dry_run \in BOOLEAN
  /\ keeps_undeclared \in BOOLEAN
  /\ trace = << >>
  /\ router_response = << >>
  /\ lastRun = NoRun
  /\ handed = << >>
  /\ crashes = 0

\* An exception leaves graph.stream: process_turn's except clause reports it
\* and the loop prompts again; the snapshot of the last finished node of the
\* main graph is what the thread keeps.
Abort(node) ==
  /\ state' = store.values
  /\ pc' = "prompt"
  /\ trace' = trace \o <<node, "raise">>
  /\ UNCHANGED <<store, turn, dry_run, keeps_undeclared>>

\* The node of the main graph reached END: the turn is complete.
EndTurn(s, node) ==
  /\ state' = s
  /\ store' = Snapshot(s, "none")
  /\ pc' = "prompt"
  /\ trace' = trace \o <<node, "END">>
  /\ UNCHANGED <<turn, dry_run, keeps_undeclared>>

\* start, lines 144-154 and run_graph_sync: a new human message starts a run
\* at the entry point; tasks left pending by the previous run are discarded.
UserInput ==
  /\ pc = "prompt"
  /\ turn < MaxTurns
  /\ LET s == Merge(state, [messages |-> <<NewMessage("human", <<"request">>)>>])
     IN  /\ state' = s
         /\ store' = Snapshot(s, "router")
  /\ pc' = "router"
  /\ turn' = turn + 1
  /\ trace' = << >>
  /\ lastRun' = NoRun
  /\ UNCHANGED <<dry_run, keeps_undeclared, router_response, handed>>
  /\ UNCHANGED crashes

\* router and its conditional edge route_request.
Router(outputs) ==
  /\ pc = "router"
  /\ \E completion \in outputs :
       LET category == RouterCategory(completion)
           s == Merge(state, [route_target |-> RouterTarget(category)])
           dest == route_request(s)
       IN  /\ router_response' = completion
           /\ IF dest \in RouterBranches
                THEN /\ state' = s
                     /\ store' = Snapshot(s, dest)
                     /\ pc' = IF dest = "planner" THEN "draft_plan"
                              ELSE IF dest = "researcher" THEN "search_engine"
                              ELSE "chat_node"
                     /\ trace' = Append(trace, "router")
                     /\ UNCHANGED <<turn, dry_run, keeps_undeclared>>
                ELSE Abort("router")
  /\ UNCHANGED <<lastRun, handed>>
  /\ UNCHANGED crashes

\* chat_node, then END.
ChatNode ==
  /\ pc = "chat_node"
  /\ EndTurn(Merge(state, [messages |-> <<NewMessage("ai", <<"reply">>)>>]),
             "chat_node")
  /\ UNCHANGED <<router_response, lastRun, handed>>
  /\ UNCHANGED crashes

\* The planner sub-graph (entry point draft_plan, then END); the main graph's
\* next node is the executor, before which the compiled graph interrupts.
DraftPlan ==
  /\ pc = "draft_plan"
  /\ \E completion \in PlannerResponses :
       LET s == Merge(state, draft_plan(completion))
       IN  /\ state' = s
           /\ store' = Snapshot(s, "executor")
  /\ pc' = "approval"
  /\ trace' = trace \o <<"draft_plan", "interrupt">>
  /\ handed' = << >>
  /\ UNCHANGED <<turn, dry_run, keeps_undeclared, router_response, lastRun>>
  /\ UNCHANGED crashes

\* process_turn, lines 91-93: the dry run stops at the pause.
DryRun ==
  /\ pc = "approval"
  /\ dry_run
  /\ pc' = "prompt"
  /\ trace' = Append(trace, "dry_run")
  /\ UNCHANGED <<state, store, turn, dry_run, keeps_undeclared, router_response,
                 lastRun, handed>>
  /\ UNCHANGED crashes

\* A decline that discards the plan it was shown.
Decline_DiscardsPlan ==
  /\ pc = "approval"
  /\ ~dry_run
  /\ pc' = "prompt"
  /\ trace' = Append(trace, "declined")
  /\ state' = [state EXCEPT !.plan = << >>]
  /\ store' = Snapshot(state', "none")
  /\ UNCHANGED <<turn, dry_run, keeps_undeclared, router_response,
                 lastRun, handed, crashes>>

\* process_turn, lines 107-109: the user declines.
Decline ==
  /\ pc = "approval"
  /\ ~dry_run
  /\ pc' = "prompt"
  /\ trace' = Append(trace, "declined")
  /\ UNCHANGED <<state, store, turn, dry_run, keeps_undeclared, router_response,
                 lastRun, handed>>
  /\ UNCHANGED crashes

\* Resume that starts the graph again at its entry point.
Resume_FromEntryPoint ==
  /\ pc = "approval"
  /\ ~dry_run
  /\ LET s == Merge(state, [user_validated |-> TRUE])
     IN  /\ state' = s
         /\ store' = Snapshot(s, "router")
  /\ pc' = "router"
  /\ trace' = Append(trace, "resume")
  /\ UNCHANGED <<turn, dry_run, keeps_undeclared, router_response, lastRun,
                 handed, crashes>>

\* Resume without the update_state call.
Resume_NoUpdate ==
  /\ pc = "approval"
  /\ ~dry_run
  /\ pc' = "step_parser"
  /\ trace' = Append(trace, "resume")
  /\ UNCHANGED <<state, store, turn, dry_run, keeps_undeclared,
                 router_response, lastRun, handed, crashes>>

\* process_turn, lines 97-102: update_state marks the plan validated, then
\* graph.stream(None, config) enters the executor sub-graph.
Resume ==
  /\ pc = "approval"
  /\ ~dry_run
  /\ LET s == Merge(state, [user_validated |-> TRUE])
     IN  /\ state' = s
         /\ store' = Snapshot(s, "executor")
  /\ pc' = "step_parser"
  /\ trace' = Append(trace, "resume")
  /\ UNCHANGED <<turn, dry_run, keeps_undeclared, router_response, lastRun, handed>>
  /\ UNCHANGED crashes

\* ---- the executor sub-graph: compiled without a checkpointer and added to
\* the main graph as one node, so the thread's snapshot changes only when
\* the sub-graph reaches END.

StepParser ==
  /\ pc = "step_parser"
  /\ state' = Merge(state, step_parser(state))
  /\ pc' = "safety_guard"
  /\ trace' = Append(trace, "step_parser")
  /\ UNCHANGED <<store, turn, dry_run, keeps_undeclared, router_response, lastRun,
                 handed>>
  /\ UNCHANGED crashes

SafetyGuard ==
  /\ pc = "safety_guard"
  /\ LET update == safety_guard(state)
     IN  IF Raises(update)
           THEN Abort("safety_guard")
           ELSE /\ state' = Merge(state, update)
                /\ pc' = "terminal_runner"
                /\ trace' = Append(trace, "safety_guard")
                /\ UNCHANGED <<store, turn, dry_run, keeps_undeclared>>
  /\ UNCHANGED <<router_response, lastRun, handed>>
  /\ UNCHANGED crashes

\* terminal_runner and its conditional edge check_execution_result.
TerminalRunner ==
  /\ pc = "terminal_runner"
  /\ \E outcome \in ExecutorOutcomes :
       LET idx == state.current_step_index
           command == state.plan[idx + 1].command
           r == SafeSubprocess_run(command, outcome)
           s == Merge(state, terminal_runner(state, r))
           label == check_execution_result(s)
       IN  /\ IF Falsy(command)
                THEN UNCHANGED <<lastRun, handed>>
                ELSE /\ lastRun' = RunRecord(command, outcome, r)
                     /\ handed' = Append(handed, idx)
           /\ IF label = "IndexError"
                THEN Abort("terminal_runner")
                ELSE /\ state' = s
                     /\ pc' = label
                     /\ trace' = Append(trace, "terminal_runner")
                     /\ UNCHANGED <<store, turn, dry_run, keeps_undeclared>>
  /\ UNCHANGED router_response
  /\ UNCHANGED crashes

\* error_handler, then END of the sub-graph and of the main graph.
ErrorHandler ==
  /\ pc = "error_handler"
  /\ EndTurn(Merge(state, error_handler(state)), "error_handler")
  /\ UNCHANGED <<router_response, lastRun, handed>>
  /\ UNCHANGED crashes

\* ---- the researcher sub-graph

SearchEngine ==
  /\ pc = "search_engine"
  /\ \E results \in SearchResults :
       state' = Merge(state,
                      [research_outputs |->
                         Append(state.research_outputs,
                                [query |-> "request", result |-> results])])
  /\ pc' = "grader"
  /\ trace' = Append(trace, "search_engine")
  /\ UNCHANGED <<store, turn, dry_run, keeps_undeclared, router_response, lastRun,
                 handed>>
  /\ UNCHANGED crashes

\* grader and its conditional edge check_grade.
Grader ==
  /\ pc = "grader"
  /\ \E completion \in GraderOutputs :
       LET s == Merge(state, [grader_decision |-> GraderDecision(completion)])
       IN  /\ state' = s
           /\ pc' = check_grade(s)
  /\ trace' = Append(trace, "grader")
  /\ UNCHANGED <<store, turn, dry_run, keeps_undeclared, router_response, lastRun,
                 handed>>
  /\ UNCHANGED crashes

\* drafter, then END.
Drafter ==
  /\ pc = "drafter"
  /\ EndTurn(Merge(state, [messages |-> <<NewMessage("ai", <<"answer">>)>>]),
             "drafter")
  /\ UNCHANGED <<router_response, lastRun, handed>>
  /\ UNCHANGED crashes

\* llm.invoke raises inside a node: no node catches it.
ServiceFailure ==
  /\ pc \in {"router", "chat_node", "draft_plan", "search_engine", "grader",
             "drafter"}
  /\ Abort(pc)
  /\ UNCHANGED <<router_response, lastRun, handed>>
  /\ UNCHANGED crashes

Next ==
  \/ UserInput
  \/ Router(ClassifierOutputs)
  \/ ChatNode
  \/ DraftPlan
  \/ DryRun
  \/ Decline
  \/ Resume
  \/ StepParser
  \/ SafetyGuard
  \/ TerminalRunner
  \/ ErrorHandler
  \/ SearchEngine
  \/ Grader
  \/ Drafter
  \/ ServiceFailure

Spec == Init /\ [][Next]_vars

\* ---- the router alone, on many classifier outputs

\* Text around the category name: nothing, whitespace, or more words.
OutputPrefixes == {<< >>, <<" ">>, <<"\n">>, <<"N","O","T"," ">>, <<"d","o"," ","n","o","t"," ">>}

OutputCores == {<<"E","X","E","C","U","T","E">>, <<"e","x","e","c","u","t","e">>, <<"R","E","S","E","A","R","C","H">>, <<"R","e","s","e","a","r","c","h">>, <<"C","H","A","T">>, <<"c","h","a","t">>, << >>, <<"b","a","n","a","n","a">>, <<"E","X","E","C">>}

OutputSuffixes == {<< >>, <<" ">>, <<"\n">>, <<".">>, <<"D">>}

AllClassifierOutputs ==
  {pre \o core \o suf :
     pre \in OutputPrefixes, core \in OutputCores, suf \in OutputSuffixes}

NextRouter ==
  \/ UserInput
  \/ Router(AllClassifierOutputs)

RouterSpec == Init /\ [][NextRouter]_vars

\* ---- the sandbox alone, on many command texts

\* The recursive root deletion in every casing of its letters.
RootDeletionCasings ==
  {[i \in 1..Len(RmRfRoot) |->
      IF i \in caps THEN UpperChar(RmRfRoot[i]) ELSE RmRfRoot[i]] :
        caps \in SUBSET {i \in 1..Len(RmRfRoot) : UpperChar(RmRfRoot[i]) # RmRfRoot[i]}}

\* Text around a command: nothing, whitespace, or more shell text.
Surroundings == {<< >>, <<" ">>, <<"\t">>, <<" "," ">>, <<"\n">>, <<"l","s",";"," ">>, <<" ","h","o","m","e">>}

RootDeletionCommands ==
  {pre \o core \o suf :
     pre \in Surroundings, core \in RootDeletionCasings, suf \in Surroundings}

\* Commands that delete something else, or nothing.
OtherCommands == {<<"l","s">>, <<"r","m"," "," ","-","r","f"," ","/">>, <<"r","m"," ","-","r"," ","/","t","m","p","/","x">>, <<"F","O","R","M","A","T"," ","C",":">>, <<"e","c","h","o"," ","r","m">>, << >>}

SandboxCommands == RootDeletionCommands \cup OtherCommands

\* A call of SafeSubprocess.run(command) on any command text, before the
\* first turn of the thread.
SandboxCall ==
  /\ pc = "prompt"
  /\ turn = 0
  /\ lastRun = NoRun
  /\ \E command \in SandboxCommands, outcome \in ProcessOutcomes :
       LET r == SafeSubprocess_run(command, outcome)
       IN  lastRun' = RunRecord(command, outcome, r)
  /\ UNCHANGED <<state, store, pc, turn, dry_run, keeps_undeclared, trace,
                 router_response, handed, crashes>>

NextSandbox ==
  \/ Next
  \/ SandboxCall

SandboxSpec == Init /\ [][NextSandbox]_vars

\* ---- the process is killed and started again

\* The process dies inside a turn; `start` run again builds the graph on the
\* same sqlite file: the thread is what the last snapshot holds.
Crash ==
  /\ pc # "prompt"
  /\ crashes < MaxCrashes
  /\ crashes' = crashes + 1
  /\ state' = store.values
  /\ pc' = "prompt"
  /\ trace' = <<"crash">>
  /\ dry_run' \in BOOLEAN
  /\ UNCHANGED <<store, turn, keeps_undeclared, router_response, lastRun,
                 handed>>

\* The resume call of process_turn (update_state, then stream(None, config))
\* issued on the restarted process for a thread whose snapshot still has the
\* executor pending.
ResumeAfterRestart ==
  /\ pc = "prompt"
  /\ trace = <<"crash">>
  /\ store.next = "executor"
  /\ LET s == Merge(store.values, [user_validated |-> TRUE])
     IN  /\ state' = s
         /\ store' = Snapshot(s, "executor")
  /\ pc' = "step_parser"
  /\ trace' = Append(trace, "resume")
  /\ UNCHANGED <<turn, dry_run, keeps_undeclared, router_response, lastRun,
                 handed, crashes>>

NextRecover ==
  \/ Next
  \/ Crash
  \/ ResumeAfterRestart

RecoverSpec == Init /\ [][NextRecover]_vars

\* ------------------------------------------------------------------ claims

ExecutorNodes ==
  {"step_parser", "safety_guard", "terminal_runner", "error_handler"}

Last(s) == s[Len(s)]

\* Positions of an entry in the turn's trace.
Positions(entry) == {i \in 1..Len(trace) : trace[i] = entry}

\* The command terminal_runner is about to read, when there is one.
PendingCommand ==
  IF state.current_step_index < Len(state.plan)
    THEN state.plan[state.current_step_index + 1].command
    ELSE None

\* C1: whenever terminal_runner hands a command to the sandbox,
\* user_validated is true (in the running state and in the snapshot), and
\* every executor node of a turn comes after a resume call of that turn,
\* which itself comes after the turn's draft_plan and is followed by no other
\* planner visit; a turn without a resume visits no executor node.
C1_ApprovalGate ==
  /\ (pc = "terminal_runner" /\ ~Falsy(PendingCommand))
       => (state.user_validated /\ store.values.user_validated)
  /\ lastRun.called /\ turn > 0 => state.user_validated
  /\ \A i \in 1..Len(trace) :
       trace[i] \in ExecutorNodes =>
         \E j \in Positions("resume") :
           /\ j < i
           /\ \E k \in Positions("draft_plan") : k < j
           /\ \A k \in Positions("draft_plan") : k < j
  /\ pc \in ExecutorNodes => Positions("resume") # {}

C1_Witness ==
  /\ lastRun.called
  /\ lastRun.launched
  /\ turn > 0
  /\ Positions("resume") # {}
  /\ \E i \in Positions("terminal_runner") : TRUE

\* C2: a call of SafeSubprocess.run on a command that contains the recursive
\* root deletion, in any casing and with any text or whitespace around it,
\* returns -1 and starts no process; so does terminal_runner for such a step.
C2_RootDeletionNeverSpawns ==
  (lastRun.called /\ lastRun.command \in RootDeletionCommands)
    => (lastRun.return_code = -1 /\ ~lastRun.launched)

C2_Witness ==
  /\ lastRun.called
  /\ lastRun.command = RmRfRootMixed
  /\ lastRun.return_code = -1
  /\ Positions("terminal_runner") # {}

\* C3: in every state of a thread, running or stored,
\* 0 <= current_step_index <= len(plan).
C3_CursorInRange ==
  /\ 0 <= state.current_step_index
  /\ state.current_step_index <= Len(state.plan)
  /\ 0 <= store.values.current_step_index
  /\ store.values.current_step_index <= Len(store.values.plan)

\* The executor node at pc ran to its end (it did not raise).
NodeCompleted == pc \in ExecutorNodes /\ ~(pc' = "prompt" /\ Last(trace') = "raise")

\* C4: within a run of the executor the cursor never decreases and never
\* exceeds len(plan); a terminal_runner visit that marks its step done
\* (exit code 0, or no command) adds exactly 1, any other node visit leaves
\* it unchanged.
C4_CursorWithinRun ==
  [][NodeCompleted =>
       LET idx == state.current_step_index
           after == state'.current_step_index
       IN  /\ idx <= Len(state.plan)
           /\ after <= Len(state'.plan)
           /\ after >= idx
           /\ IF pc = "terminal_runner" /\ state'.plan[idx + 1].status = "done"
                THEN after = idx + 1
                ELSE after = idx]_vars

\* C5: when terminal_runner's call of the sandbox returns a nonzero code,
\* the next node is error_handler, and error_handler ends the run (the turn
\* is over: no node, and no terminal_runner, follows it).
C5_FailureEndsRun ==
  [][/\ (pc = "terminal_runner" /\ handed' # handed /\ lastRun'.return_code # 0)
          => (pc' = "error_handler"
              /\ state'.plan[state.current_step_index + 1].status = "failed")
     /\ pc = "error_handler"
          => (pc' = "prompt" /\ Last(trace') = "END")]_vars

C5_Witness ==
  /\ pc = "prompt"
  /\ lastRun.called
  /\ lastRun.return_code # 0
  /\ Len(trace) >= 3
  /\ SubSeq(trace, Len(trace) - 2, Len(trace))
       = <<"terminal_runner", "error_handler", "END">>
  /\ Cardinality(Positions("terminal_runner")) = 2

\* C6: a resumed turn never ends in an unhandled error: it ends at END, and
\* when it did not end in error_handler the cursor equals len(plan) and
\* every step is done.
C6_ExecutorEndsNormally ==
  (pc = "prompt" /\ Positions("resume") # {})
    => /\ Last(trace) = "END"
       /\ trace[Len(trace) - 1] # "error_handler"
            => /\ state.current_step_index = Len(state.plan)
               /\ \A i \in 1..Len(state.plan) : state.plan[i].status = "done"

C8_StatusTransitions ==
  [][NodeCompleted =>
       \A i \in 1..Len(state.plan) :
         LET before == state.plan[i].status
             after == state'.plan[i].status
         IN  \/ after = before
             \/ pc = "step_parser" /\ before = "pending" /\ after = "in_progress"
             \/ /\ pc = "terminal_runner"
                /\ before = "in_progress"
                /\ after \in {"done", "failed"}]_vars

\* Classifier outputs that are exactly one category name, in any casing,
\* with nothing but whitespace around it.
ExactOutputs ==
  {pre \o core \o suf :
     pre \in {x \in OutputPrefixes : \A i \in 1..Len(x) : x[i] \in Whitespace},
     core \in {x \in OutputCores : upper(x) \in {Execute, Research, Chat}},
     suf \in {x \in OutputSuffixes : \A i \in 1..Len(x) : x[i] \in Whitespace}}

\* C9: after the router ran, its decision selected one of the three branches
\* of the conditional edge (the edge raised nothing), and a completion that
\* is not exactly one category name went to chat_node.
C9_RouterDecision ==
  (trace # << >> /\ trace[1] = "router")
    => /\ trace = <<"router">>
       /\ pc \in {"draft_plan", "search_engine", "chat_node"}
       /\ router_response \notin ExactOutputs => pc = "chat_node"

\* C10: after a visit of draft_plan, parsed or not, user_validated is false
\* (until the user approves that plan).
C10_PlannerResetsValidation ==
  (Positions("draft_plan") # {} /\ Positions("resume") = {})
    => (~state.user_validated /\ ~store.values.user_validated)

\* The planner visit of this turn ended in its parse-failure branch: the
\* diagnostic is the last message and the turn was not resumed.
PlannerParseFailed ==
  /\ Positions("draft_plan") # {}
  /\ Positions("resume") = {}
  /\ state.messages # << >>
  /\ Last(state.messages).type = "system"
  /\ Last(state.messages).content = <<"Error generating plan">>

\* C11: when the planner's completion is not valid JSON, the plan is empty,
\* the diagnostic follows the human message, user_validated is false, and
\* the engine neither suspends before the executor nor records the executor
\* as the pending node.
C11_InvalidPlanNoPause ==
  PlannerParseFailed
    => /\ state.plan = << >>
       /\ state.messages[Len(state.messages) - 1].type = "human"
       /\ ~state.user_validated
       /\ pc # "approval"
       /\ store.next # "executor"

\* C12: for a step whose command is null, each of step_parser, safety_guard
\* and terminal_runner completes without raising and without a call of the
\* sandbox, and terminal_runner marks the step done with the fixed output,
\* appends one history record with a null command and adds 1 to the cursor.
C12_NullCommandPass ==
  [][(/\ pc \in {"step_parser", "safety_guard", "terminal_runner"}
      /\ PendingCommand = None
      /\ state.current_step_index < Len(state.plan))
       => LET idx == state.current_step_index
          IN  /\ Last(trace') # "raise"
              /\ lastRun' = lastRun
              /\ handed' = handed
              /\ pc = "terminal_runner"
                   => /\ state'.plan[idx + 1].status = "done"
                      /\ state'.plan[idx + 1].output = <<"(No command executed)">>
                      /\ Len(state'.execution_history)
                           = Len(state.execution_history) + 1
                      /\ Last(state'.execution_history).command = None
                      /\ state'.current_step_index = idx + 1]_vars

\* ---- the router and the researcher sub-graph alone

NextResearcher ==
  \/ UserInput
  \/ Router({Research})
  \/ ChatNode
  \/ SearchEngine
  \/ Grader
  \/ Drafter
  \/ ServiceFailure

\* The engine runs the next node of a run until the run reaches END or a
\* node raises.
ResearcherSpec ==
  /\ Init
  /\ [][NextResearcher]_vars
  /\ WF_vars(SearchEngine)
  /\ WF_vars(Grader)
  /\ WF_vars(Drafter)

\* C13: in a run of the researcher, whatever the grader answers and whatever
\* research_outputs held before, search_engine is visited at most 3 times,
\* a run that started reaches drafter unless a service call raised, and a
\* run that ended without an exception ended through drafter.
C13_ResearcherBounded ==
  /\ [](/\ Cardinality(Positions("search_engine")) <= 3
        /\ (pc = "prompt" /\ Positions("search_engine") # {}
              /\ Last(trace) # "raise")
             => (Last(trace) = "END" /\ trace[Len(trace) - 1] = "drafter"))
  /\ (pc = "search_engine")
       ~> (pc = "drafter" \/ (trace # << >> /\ Last(trace) = "raise"))

\* Second turn: the first turn's run searched twice, this one, starting with
\* that content, searched once although the grader did not say yes.
C13_Witness ==
  /\ turn = 2
  /\ Len(state.research_outputs) = 3
  /\ Cardinality(Positions("search_engine")) = 1
  /\ Last(trace) = "END"
  /\ trace[Len(trace) - 1] = "drafter"
  /\ ~Contains(state.grader_decision, Yes)

\* The executor ran both steps of a two-step plan in this turn, and the
\* command of the second ran past its timeout.
SecondStepTimedOut ==
  /\ Len(state.plan) = 2
  /\ handed = <<0, 1>>
  /\ lastRun.called
  /\ lastRun.happened = "timeout"

\* C14: a command that runs past its timeout makes the sandbox return 124
\* without raising, and for a two-step plan whose first step succeeded and
\* whose second timed out, the run added exactly two history entries (two
\* in all on a new thread), the second with exit code 124, step 2 is failed,
\* the cursor is 1 and the run goes to error_handler.
C14_TimeoutIsFailure ==
  /\ (lastRun.called /\ lastRun.happened = "timeout")
       => (lastRun.return_code = 124 /\ ~lastRun.raised)
  /\ SecondStepTimedOut
       => LET history == state.execution_history
              n == Len(history)
          IN  /\ n >= 2
              /\ history[n].return_code = 124
              /\ history[n].step_id = 2
              /\ history[n - 1].return_code = 0
              /\ history[n - 1].step_id = 1
              /\ turn = 1 => n = 2
              /\ pc = "error_handler"
                   => n = Len(store.values.execution_history) + 2
              /\ state.plan[1].status = "done"
              /\ state.plan[2].status = "failed"
              /\ state.current_step_index = 1
              /\ \/ pc = "error_handler"
                 \/ /\ pc = "prompt"
                    /\ Last(trace) = "END"
                    /\ trace[Len(trace) - 1] = "error_handler"

\* A later turn of the thread, so that the history held entries before.
C14_Witness ==
  /\ SecondStepTimedOut
  /\ pc = "prompt"
  /\ turn = 2
  /\ Len(state.execution_history) > 2

SecurityBlock == "CRITICAL SECURITY: Command blocked by SafeSubprocess"

\* C15: terminal_runner on a command the denylist blocks: no process, the
\* step becomes failed with the security-block message as output, one
\* history record with exit code -1 is appended, the cursor stays, and the
\* next node is error_handler; error_handler then ends the turn with the
\* failure message as last message and the cursor still on the step.
C15_BlockedIsFailure ==
  [][LET idx == state.current_step_index
     IN  /\ (/\ pc = "terminal_runner"
             /\ idx < Len(state.plan)
             /\ ~Falsy(PendingCommand)
             /\ DenylistHit(PendingCommand))
              => /\ lastRun'.return_code = -1
                 /\ ~lastRun'.launched
                 /\ state'.plan[idx + 1].status = "failed"
                 /\ state'.plan[idx + 1].output = <<"", SecurityBlock>>
                 /\ state'.execution_history =
                      Append(state.execution_history,
                             [step_id |-> state.plan[idx + 1].id,
                              command |-> PendingCommand,
                              return_code |-> -1,
                              output |-> <<"", SecurityBlock>>])
                 /\ state'.current_step_index = idx
                 /\ pc' = "error_handler"
         /\ (/\ pc = "error_handler"
             /\ lastRun.called
             /\ lastRun.happened = "denylist_hit")
              => /\ pc' = "prompt"
                 /\ Last(trace') = "END"
                 /\ Last(state'.messages).type = "system"
                 /\ Last(state'.messages).content
                      = <<"Execution failed at step", idx + 1>>
                 /\ Len(state'.messages) = Len(state.messages) + 1
                 /\ state'.current_step_index = idx
                 /\ state'.plan = state.plan
                 /\ store'.values = state'
                 /\ store'.next = "none"]_vars

\* The second step of a plan was blocked and the turn has ended.
C15_Witness ==
  /\ pc = "prompt"
  /\ lastRun.called
  /\ lastRun.happened = "denylist_hit"
  /\ lastRun.command = RmRfRootMixed
  /\ Last(trace) = "END"
  /\ state.current_step_index = 1
  /\ state.plan[2].status = "failed"

\* C16: every call of SafeSubprocess.run returns its triple and raises
\* nothing, whatever the command and whatever happens to the process: -1 for
\* a denylist hit, -1 with the error text in stderr when Popen fails or when
\* collecting the output after the kill fails, the child's code for a normal
\* exit, 124 for a timeout.
C16_RunIsTotal ==
  lastRun.called
    => /\ ~lastRun.raised
       /\ lastRun.return_code \in {-1, 0, 1, 124}
       /\ lastRun.happened \in ProcessOutcomes \cup {"denylist_hit"}
       /\ lastRun.happened = "denylist_hit"
            => (lastRun.return_code = -1 /\ lastRun.stderr = SecurityBlock)
       /\ lastRun.happened \in {"launch_error", "collect_error"}
            => (lastRun.return_code = -1 /\ lastRun.stderr = "Execution failed")
       /\ lastRun.happened = "launch_error" => ~lastRun.launched
       /\ lastRun.happened = "exit_zero" => lastRun.return_code = 0
       /\ lastRun.happened = "exit_nonzero" => lastRun.return_code = 1
       /\ lastRun.happened = "timeout" => lastRun.return_code = 124

C16_Witness ==
  /\ lastRun.called
  /\ lastRun.happened = "launch_error"
  /\ lastRun.command = Ls
  /\ lastRun.return_code = -1

\* Nodes that call the completion service or the search service.
ServiceNodes ==
  {"router", "chat_node", "draft_plan", "search_engine", "grader", "drafter"}

\* C17: a failing service call does not leave its node as an exception: no
\* turn ends with an exception raised by a node that calls a service, and a
\* turn that has left such a node is at a later node, at the approval pause
\* or at END.
C17_ServiceFailureCaught ==
  \A i \in 2..Len(trace) :
    trace[i] = "raise" => trace[i - 1] \notin ServiceNodes

\* ---- planning turns, with a restart of the process at the approval pause

\* All turns but the last of the thread.
EarlyUserInput ==
  /\ turn < MaxTurns - 1
  /\ UserInput

\* The process is killed while the turn waits for the approval.
CrashAtPause ==
  /\ pc = "approval"
  /\ Crash

NextRestart ==
  \/ EarlyUserInput
  \/ Router({Execute})
  \/ ChatNode
  \/ DraftPlan
  \/ DryRun
  \/ Decline
  \/ Resume
  \/ StepParser
  \/ SafetyGuard
  \/ TerminalRunner
  \/ ErrorHandler
  \/ CrashAtPause
  \/ ResumeAfterRestart

RestartSpec == Init /\ [][NextRestart]_vars

C19_RoutingOnce ==
  /\ pc = "router" => trace = << >>
  /\ (turn > 0 /\ pc # "router")
       => (Positions("router") = {1} /\ Len(state.messages) >= turn)
  /\ \A i \in Positions("resume") :
       /\ \A j \in (i + 1)..Len(trace) : trace[j] \notin {"router", "draft_plan"}
       /\ Len(trace) > i => trace[i + 1] = "step_parser"
       /\ Len(trace) = i => pc = "step_parser"

\* The second turn of a thread was resumed and its executor run has ended.
C19_Witness ==
  /\ turn = 2
  /\ pc = "prompt"
  /\ Positions("resume") # {}
  /\ Last(trace) = "END"
  /\ Positions("router") = {1}

\* C20: the edge after terminal_runner goes to error_handler exactly when
\* the step terminal_runner just ran has status failed, and to step_parser
\* otherwise, whatever statuses the planner supplied for the other steps.
C20_EdgeReadsProcessedStep ==
  [][(pc = "terminal_runner" /\ NodeCompleted)
       => LET processed == state'.plan[state.current_step_index + 1]
          IN  /\ pc' \in {"error_handler", "step_parser"}
              /\ pc' = "error_handler" <=> processed.status = "failed"]_vars

\* Every step of s.plan at an index below the cursor of s is done.
DoneBelowCursor(s) ==
  \A i \in 1..s.current_step_index :
    i <= Len(s.plan) => s.plan[i].status = "done"

C22_NegativeGradeSearchesAgain ==
  [][(/\ pc = "grader"
      /\ Last(trace') = "grader"
      /\ ~Contains(state'.grader_decision, Yes)
      /\ Cardinality(Positions("search_engine")) < 2)
       => pc' = "search_engine"]_vars

IsPrefix(a, b) ==
  /\ Len(a) <= Len(b)
  /\ \A i \in 1..Len(a) : b[i] = a[i]

\* C23: every step of the thread leaves the messages it had as a prefix, in
\* the running state and in the store, no two messages share an id, and
\* error_handler adds exactly one message, the system message that names the
\* step at the cursor, whose status is failed.
C23_MessagesAppendOnly ==
  [][/\ IsPrefix(state.messages, state'.messages)
     /\ IsPrefix(store.values.messages, store'.values.messages)
     /\ \A i, j \in 1..Len(state'.messages) :
          i < j => state'.messages[i].id # state'.messages[j].id
     /\ pc = "error_handler"
          => LET idx == state.current_step_index
             IN  /\ state'.messages =
                      Append(state.messages,
                             [id |-> Len(state.messages) + 1,
                              type |-> "system",
                              content |-> <<"Execution failed at step", idx + 1>>])
                 /\ state.plan[idx + 1].status = "failed"
                 /\ store'.values.messages = state'.messages]_vars

\* A later turn ended in error_handler: its message follows the messages of
\* the earlier turn.
C23_Witness ==
  /\ turn = 2
  /\ pc = "prompt"
  /\ Len(state.messages) >= 3
  /\ Last(trace) = "END"
  /\ trace[Len(trace) - 1] = "error_handler"
  /\ Last(state.messages).type = "system"
  /\ state.messages[2].type = "ai"

\* C24: every step of the thread leaves the records execution_history had as
\* a prefix, in the running state and in the store, and a terminal_runner
\* visit adds exactly one record.
C24_HistoryAppendOnly ==
  [][/\ IsPrefix(state.execution_history, state'.execution_history)
     /\ IsPrefix(store.values.execution_history,
                 store'.values.execution_history)
     /\ pc = "terminal_runner"
          => Len(state'.execution_history)
               = Len(state.execution_history) + 1]_vars

\* C25: an executor node that runs to its end keeps the length of the plan
\* and every step's id, description, command and risk_level, changes no step
\* but the one at the cursor, and leaves research_outputs and user_validated
\* alone; step_parser, safety_guard and error_handler also leave
\* execution_history alone.
C25_ExecutorFrame ==
  [][NodeCompleted =>
       LET idx == state.current_step_index
       IN  /\ Len(state'.plan) = Len(state.plan)
           /\ \A i \in 1..Len(state.plan) :
                /\ \A k \in {"id", "description", "command", "risk_level"} :
                     state'.plan[i][k] = state.plan[i][k]
                /\ i # idx + 1 => state'.plan[i] = state.plan[i]
           /\ state'.research_outputs = state.research_outputs
           /\ state'.user_validated = state.user_validated
           /\ pc \in {"step_parser", "safety_guard", "error_handler"}
                => state'.execution_history = state.execution_history]_vars

\* A run changed the first two steps of its plan, one after the other, and
\* is about to run the second.
C25_Witness ==
  /\ pc = "terminal_runner"
  /\ Len(state.plan) = 2
  /\ state.current_step_index = 1
  /\ state.plan[1].status = "done"
  /\ "output" \in DOMAIN state.plan[1]
  /\ state.plan[2].status = "in_progress"
  /\ Len(state.execution_history) >= 1

====
